---------------------------- MODULE Spec2Model ----------------------------
(***************************************************************************)
(* A model of probey.py: a host probe that collects a set of hostnames     *)
(* (from a hosts file or from subfinder), probes every host over HTTPS     *)
(* with a bounded number of concurrent probe units, and writes a JSON      *)
(* report.                                                                 *)
(*                                                                         *)
(* Python strings whose characters the program inspects (lines, hostnames, *)
(* URLs) are sequences of one-character strings.  Python dicts are         *)
(* functions whose DOMAIN is the set of keys.  None is the value None.     *)
(***************************************************************************)
EXTENDS Integers, Sequences, FiniteSets, TLC

\* ------------------------------------------------------------------ bounds

\* Largest value of --concurrency that is explored (the smallest is -1).
MaxConcurrency == 2

\* The batch size of run().  The program's value is 200 (probey.py line 82);
\* the model runs the same loop with a small batch so that a hostname set of
\* three or four hosts is split over several batches.
batch_size == 2

\* ----------------------------------------------------------------- strings

\* Python's None, for optional strings.  No string has a character of more
\* than one letter, so None differs from every string.
None == <<"None">>

\* The characters, in code point order (tab, newline, space, '#', '.', '/',
\* ':', then the letters).
Alphabet == <<"\t", "\n", " ", "#", ".", "/", ":", "a", "b", "c", "d",
              "h", "p", "s", "t", "x">>

Ord(c) == CHOOSE k \in 1..Len(Alphabet) : Alphabet[k] = c

Whitespace == {"\t", "\n", " "}

\* A test for None only, which takes "" for a value.
is_not_None(s) == s # None

\* bool(s) of an Optional[str]: None and "" are falsy.
Truthy(s) == s # None /\ s # <<>>

RECURSIVE lstrip(_)
lstrip(s) == IF s # <<>> /\ Head(s) \in Whitespace THEN lstrip(Tail(s)) ELSE s

RECURSIVE rstrip(_)
rstrip(s) ==
    IF s # <<>> /\ s[Len(s)] \in Whitespace
    THEN rstrip(SubSeq(s, 1, Len(s) - 1)) ELSE s

\* str.strip()
strip(s) == rstrip(lstrip(s))

\* str.startswith(prefix)
startswith(s, prefix) ==
    Len(s) >= Len(prefix) /\ SubSeq(s, 1, Len(prefix)) = prefix

\* str.replace(old, ""): every non-overlapping occurrence of old, scanning
\* from the left, is removed.
RECURSIVE remove_all(_, _)
remove_all(s, old) ==
    IF s = <<>> THEN <<>>
    ELSE IF startswith(s, old)
         THEN remove_all(SubSeq(s, Len(old) + 1, Len(s)), old)
         ELSE <<Head(s)>> \o remove_all(Tail(s), old)

\* str.split(sep)[0] for a one-character sep: the text before the first sep.
RECURSIVE split_first(_, _)
split_first(s, sep) ==
    IF s = <<>> \/ Head(s) = sep THEN <<>>
    ELSE <<Head(s)>> \o split_first(Tail(s), sep)

\* str.splitlines(): the lines of a text, line breaks dropped; a final line
\* break opens no further line.
RECURSIVE splitlines(_)
splitlines(text) ==
    IF text = <<>> THEN <<>>
    ELSE LET first == split_first(text, "\n")
             rest  == SubSeq(text, Len(first) + 2, Len(text))
         IN  <<first>> \o splitlines(rest)

\* a < b for Python strings: lexicographic by code point.
RECURSIVE str_less(_, _)
str_less(a, b) ==
    IF b = <<>> THEN FALSE
    ELSE IF a = <<>> THEN TRUE
    ELSE IF Head(a) # Head(b) THEN Ord(Head(a)) < Ord(Head(b))
    ELSE str_less(Tail(a), Tail(b))

\* sorted(S) of a set of strings.
RECURSIVE sorted(_)
sorted(S) ==
    IF S = {} THEN <<>>
    ELSE LET least == CHOOSE m \in S : \A o \in S \ {m} : str_less(m, o)
         IN  <<least>> \o sorted(S \ {least})

\* The elements of a sequence, as a set.
Range(q) == {q[k] : k \in DOMAIN q}

HTTP == <<"h", "t", "t", "p", ":", "/", "/">>

HTTPS == <<"h", "t", "t", "p", "s", ":", "/", "/">>

\* ------------------------------------------------------ read_hosts_file

\* A loop body that removes a scheme only where the line starts with it.
host_of_line_prefix_only(raw) ==
    LET line == strip(raw)
        rest == IF startswith(line, HTTP)
                THEN SubSeq(line, Len(HTTP) + 1, Len(line))
                ELSE IF startswith(line, HTTPS)
                     THEN SubSeq(line, Len(HTTPS) + 1, Len(line))
                     ELSE line
    IN  IF line = <<>> \/ startswith(line, <<"#">>) THEN {}
        ELSE IF split_first(rest, "/") # <<>> THEN {split_first(rest, "/")}
             ELSE {}

\* The body of the loop of read_hosts_file for one line: the set holding the
\* hostname of the line, or the empty set for a line that is skipped.
host_of_line(raw) ==
    LET line == strip(raw) IN
    IF line = <<>> \/ startswith(line, <<"#">>) THEN {}
    ELSE LET host == split_first(remove_all(remove_all(line, HTTP), HTTPS), "/")
         IN  IF host # <<>> THEN {host} ELSE {}

read_hosts_file(text) ==
    UNION {host_of_line(splitlines(text)[k]) : k \in DOMAIN splitlines(text)}

\* ------------------------------------------------------------ run_subfinder

\* An adapter that drops the output of a tool that exited non-zero.
subfinder_lines_checked(p) ==
    IF p.returncode # 0 THEN {}
    ELSE {strip(ln) : ln \in {l \in Range(splitlines(p.stdout)) : strip(l) # <<>>}}

\* run_subfinder once the tool was found: p is the completed process
\* (returncode, stdout).  check=False: the return code is not looked at.
subfinder_lines(p) ==
    {strip(ln) : ln \in {l \in Range(splitlines(p.stdout)) : strip(l) # <<>>}}

\* run_subfinder(domain): which is whether shutil.which found the tool.
run_subfinder(which, p) == IF ~which THEN {} ELSE subfinder_lines(p)


\* ------------------------------------------------------------- probe_url

\* The classes of an exception raised by client.get, most derived first
\* (the httpx hierarchy the except clause of probe_url is matched against).
mro(cls) ==
    CASE cls = "ConnectError" ->
             {"ConnectError", "NetworkError", "TransportError",
              "RequestError", "HTTPError", "Exception"}
      [] cls = "ReadTimeout" ->
             {"ReadTimeout", "TimeoutException", "TransportError",
              "RequestError", "HTTPError", "Exception"}
      [] cls = "InvalidURL" -> {"InvalidURL", "Exception"}

\* An except clause that names httpx.TimeoutException alone.
caught_timeouts_only(cls) == "TimeoutException" \in mro(cls)

\* except (httpx.RequestError, httpx.TimeoutException)
caught(cls) == mro(cls) \cap {"RequestError", "TimeoutException"} # {}

\* dict.get(key) of the response headers.
get(headers, key) == IF key \in DOMAIN headers THEN headers[key] ELSE None

\* What `await client.get(url, follow_redirects=True)` can end with: a
\* response, or an exception.
Responses(url) ==
    { [kind |-> "response", url |-> url, status_code |-> 200,
       headers |-> ("server" :> <<"x">>) @@ ("content-type" :> <<"t">>)],
      [kind |-> "response", url |-> url \o <<"/", "x">>, status_code |-> 200,
       headers |-> [k \in {} |-> None]],
      [kind |-> "exception", cls |-> "ConnectError", msg |-> "refused"],
      [kind |-> "exception", cls |-> "ReadTimeout", msg |-> "timed out"],
      [kind |-> "exception", cls |-> "InvalidURL", msg |-> "invalid"] }

NoResponse == [kind |-> "none"]

\* probe_url without its try block: every exception of the GET escapes.
probe_url_unguarded(url, r) ==
    IF r.kind = "response"
    THEN [raises |-> FALSE,
          value  |-> [url |-> url,
                      final_url |-> r.url,
                      status_code |-> r.status_code,
                      server |-> get(r.headers, "server"),
                      content_type |-> get(r.headers, "content-type")]]
    ELSE [raises |-> TRUE, value |-> r.cls]

\* probe_url with one dict shape for both branches: the error branch fills
\* the success keys with None.
probe_url_one_shape(url, r) ==
    IF r.kind = "response"
    THEN [raises |-> FALSE,
          value  |-> [url |-> url,
                      final_url |-> r.url,
                      status_code |-> r.status_code,
                      server |-> get(r.headers, "server"),
                      content_type |-> get(r.headers, "content-type")]]
    ELSE IF caught(r.cls)
         THEN [raises |-> FALSE,
               value  |-> [url |-> url, final_url |-> None, status_code |-> 0,
                           server |-> None, content_type |-> None,
                           error |-> r.cls \o ": " \o r.msg]]
         ELSE [raises |-> TRUE, value |-> r.cls]

\* probe_url(client, url) when client.get ends with r: the dict returned
\* (raises = FALSE) or the exception class that escapes (raises = TRUE).
probe_url(url, r) ==
    IF r.kind = "response"
    THEN [raises |-> FALSE,
          value  |-> [url |-> url,
                      final_url |-> r.url,
                      status_code |-> r.status_code,
                      server |-> get(r.headers, "server"),
                      content_type |-> get(r.headers, "content-type")]]
    ELSE IF caught(r.cls)
         THEN [raises |-> FALSE,
               value  |-> [url |-> url, error |-> r.cls \o ": " \o r.msg]]
         ELSE [raises |-> TRUE, value |-> r.cls]

\* ------------------------------------------------------------------ inputs

\* The command lines explored: --domain absent, empty, blank or "d";
\* --hosts-file absent, empty or a path; --concurrency from -1 up.
Domains == {None, <<>>, <<" ">>, <<"d">>}

HostsFiles == {None, <<>>, <<"h">>}

Concurrencies == (-1)..MaxConcurrency

\* The texts a hosts file may hold.
\*   https://a/p, b, "# c", an empty line     (hosts a, b)
Scenario1 == HTTPS \o <<"a", "/", "p", "\n", "b", "\n", "#", " ", "c", "\n", "\n">>

\*   b, http://b, " b ", b/x                  (host b, four times)
Duplicates ==
    <<"b", "\n">> \o HTTP \o <<"b", "\n", " ", "b", " ", "\n", "b", "/", "x">>

\*   b, ahttp://b, a                          (hosts b, ab, a: unsorted)
Unsorted == <<"b", "\n", "a">> \o HTTP \o <<"b", "\n", "a">>

\*   "#a", an empty line, a blank line        (no host)
Blank == <<"#", "a", "\n", "\n", " ", "\n">>

\*   c, b, a, d                              (hosts a, b, c, d: unsorted)
FourHosts == <<"c", "\n", "b", "\n", "a", "\n", "d">>

FileTexts == {Scenario1, Duplicates, Unsorted, Blank, FourHosts}

\* The completed processes of `subfinder -d <domain> -silent`.
CompletedProcesses ==
    [returncode : {0, 1},
     stdout : {<<>>, <<" ", "a", " ", "\n", "\n", "d", "\n">>}]

NoReport == [absent |-> TRUE]

\* ------------------------------------------------------------------- state

VARIABLES
    args,            \* the parsed command line (argparse namespace)
    main_pc,         \* where main() is
    stdout,          \* the lines main() printed
    stderr,          \* the message of SystemExit, or ""
    out_file,        \* the document written to args.out, or NoReport
    params,          \* the arguments of run(): domain, hosts_file, concurrency
    run_pc,          \* where run() is
    run_exc,         \* the exception run() raised, or ""
    file_text,       \* the text read_hosts_file read, or None
    line_no,         \* how many lines of it read_hosts_file has gone through
    which,           \* what shutil.which("subfinder") found: "unasked", "absent", "found"
    subfinder_calls, \* the subprocess.run calls made: <<domain, completed process>>
    discovered,      \* what run_subfinder returned
    hosts,           \* the working set of hostnames
    sem_made,        \* whether the Semaphore exists
    sem_value,       \* the Semaphore's free slots
    tasks,           \* sorted(hosts): the host of each probe_host coroutine
    launched,        \* the units gather() has scheduled as tasks
    status,          \* each probe_host unit's state
    response,        \* what client.get ended with, per unit
    probes,          \* the results of the unit's gather: its outcomes
    raised,          \* the exception that escapes the unit, or ""
    client,          \* the units whose AsyncClient is open
    finish_order,    \* the units in the order they finished
    i,               \* the loop variable of run()
    host_results,    \* the accumulated host records
    batches,         \* the slices of tasks handed to gather(), in order
    opened,          \* how many AsyncClients each unit has constructed
    report           \* what run() returned, or NoReport

vars == <<args, main_pc, stdout, stderr, out_file, params, run_pc, run_exc,
          file_text, line_no, which, subfinder_calls, discovered, hosts, sem_made,
          sem_value,
          tasks, launched, status, response, probes, raised, client,
          finish_order, i, host_results, batches, opened, report>>

main_vars == <<args, stdout, stderr, out_file>>

source_vars == <<file_text, line_no, which, subfinder_calls, discovered>>

sched_vars == <<sem_made, sem_value, tasks, launched, status, response,
                probes, raised, client, finish_order, i, host_results>>

trace_vars == <<batches, opened>>

NoParams == [domain |-> None, hosts_file |-> None, concurrency |-> 0]

Init ==
    /\ args \in [domain : Domains, hosts_file : HostsFiles,
                 out : {"results.json"}, concurrency : Concurrencies]
    /\ main_pc = "check_args"
    /\ stdout = <<>>
    /\ stderr = ""
    /\ out_file = NoReport
    /\ params = NoParams
    /\ run_pc = "idle"
    /\ run_exc = ""
    /\ file_text = None
    /\ line_no = 0
    /\ which = "unasked"
    /\ subfinder_calls = <<>>
    /\ discovered = {}
    /\ hosts = {}
    /\ sem_made = FALSE
    /\ sem_value = 0
    /\ tasks = <<>>
    /\ launched = {}
    /\ status = <<>>
    /\ response = <<>>
    /\ probes = <<>>
    /\ raised = <<>>
    /\ client = {}
    /\ finish_order = <<>>
    /\ i = 0
    /\ host_results = <<>>
    /\ batches = <<>>
    /\ opened = <<>>
    /\ report = NoReport

\* -------------------------------------------------------------------- main

\* main(), lines 103-104: neither a hosts file nor a domain.
Main_Usage ==
    /\ main_pc = "check_args"
    /\ ~Truthy(args.hosts_file) /\ ~Truthy(args.domain)
    /\ main_pc' = "exited"
    /\ stderr' = "Provide --hosts-file or --domain"
    /\ UNCHANGED <<args, stdout, out_file, params, run_pc, run_exc, hosts, report>>
    /\ UNCHANGED source_vars
    /\ UNCHANGED sched_vars
    /\ UNCHANGED trace_vars

\* main(), line 106: asyncio.run(run(args.domain.strip() if args.domain else
\* None, args.hosts_file, args.concurrency)).
Main_CallRun ==
    /\ main_pc = "check_args"
    /\ Truthy(args.hosts_file) \/ Truthy(args.domain)
    /\ main_pc' = "run"
    /\ params' = [domain |-> IF Truthy(args.domain) THEN strip(args.domain) ELSE None,
                  hosts_file |-> args.hosts_file,
                  concurrency |-> args.concurrency]
    /\ run_pc' = "collect"
    /\ UNCHANGED <<run_exc, hosts, report>>
    /\ UNCHANGED main_vars
    /\ UNCHANGED source_vars
    /\ UNCHANGED sched_vars
    /\ UNCHANGED trace_vars

\* -------------------------------------------------- run(): the working set

\* The branches tested in the other order: `if domain:`, `elif hosts_file:`.
source_domain_first(hosts_file, domain) ==
    IF Truthy(domain) THEN "domain"
    ELSE IF Truthy(hosts_file) THEN "file"
    ELSE "none"

\* The branch run() takes at lines 71-75: `if hosts_file:`, `elif domain:`,
\* or neither.
source(hosts_file, domain) ==
    IF Truthy(hosts_file) THEN "file"
    ELSE IF Truthy(domain) THEN "domain"
    ELSE "none"

\* run(), lines 71-72: the hosts file is read.
Run_ReadHostsFile ==
    /\ main_pc = "run" /\ run_pc = "collect"
    /\ source(params.hosts_file, params.domain) = "file"
    /\ \E text \in FileTexts :
          /\ file_text' = text
          /\ line_no' = Len(splitlines(text))
          /\ hosts' = read_hosts_file(text)
    /\ run_pc' = "make_sem"
    /\ UNCHANGED <<main_pc, params, run_exc, which, subfinder_calls, discovered,
                   report>>
    /\ UNCHANGED main_vars
    /\ UNCHANGED sched_vars
    /\ UNCHANGED trace_vars

\* run(), line 72, when Path.read_text raises: there is no such file.
Run_HostsFileMissing ==
    /\ main_pc = "run" /\ run_pc = "collect"
    /\ source(params.hosts_file, params.domain) = "file"
    /\ run_pc' = "raised"
    /\ run_exc' = "FileNotFoundError"
    /\ UNCHANGED <<main_pc, params, hosts, report>>
    /\ UNCHANGED main_vars
    /\ UNCHANGED source_vars
    /\ UNCHANGED sched_vars
    /\ UNCHANGED trace_vars

\* The domain branch without hosts.add(domain).
domain_hosts_not_added(found_hosts, domain) == found_hosts

\* The working set of the domain branch of run(), lines 74-75, from what
\* run_subfinder returned.
domain_hosts(found_hosts, domain) == found_hosts \cup {domain}

\* run(), lines 73-75: hosts |= run_subfinder(domain); hosts.add(domain).
\* subprocess.run is called only when shutil.which found the tool.
Run_Discover ==
    /\ main_pc = "run" /\ run_pc = "collect"
    /\ source(params.hosts_file, params.domain) = "domain"
    /\ \E found \in BOOLEAN, p \in CompletedProcesses :
          /\ which' = IF found THEN "found" ELSE "absent"
          /\ subfinder_calls' =
                IF found THEN Append(subfinder_calls, <<params.domain, p>>)
                ELSE subfinder_calls
          /\ discovered' = run_subfinder(found, p)
          /\ hosts' = domain_hosts(run_subfinder(found, p), params.domain)
    /\ run_pc' = "make_sem"
    /\ UNCHANGED <<main_pc, params, run_exc, file_text, line_no, report>>
    /\ UNCHANGED main_vars
    /\ UNCHANGED sched_vars
    /\ UNCHANGED trace_vars

\* run(), lines 71-75 when neither branch is taken: hosts stays set().
Run_NoSource ==
    /\ main_pc = "run" /\ run_pc = "collect"
    /\ source(params.hosts_file, params.domain) = "none"
    /\ hosts' = {}
    /\ run_pc' = "make_sem"
    /\ UNCHANGED <<main_pc, params, run_exc, report>>
    /\ UNCHANGED main_vars
    /\ UNCHANGED source_vars
    /\ UNCHANGED sched_vars
    /\ UNCHANGED trace_vars

\* ---------------------------------------------------- run(): the scheduler

\* A semaphore that takes no value below one.
semaphore_ok_positive(value) == value > 0

\* asyncio.Semaphore(value) raises ValueError for a negative value.
semaphore_ok(value) == value >= 0

\* run(), line 77, with a negative concurrency.
Run_SemaphoreError ==
    /\ main_pc = "run" /\ run_pc = "make_sem"
    /\ ~semaphore_ok(params.concurrency)
    /\ run_pc' = "raised"
    /\ run_exc' = "ValueError"
    /\ UNCHANGED <<main_pc, params, hosts, report>>
    /\ UNCHANGED main_vars
    /\ UNCHANGED source_vars
    /\ UNCHANGED sched_vars
    /\ UNCHANGED trace_vars

\* run(), lines 77-82: the semaphore, one probe_host coroutine per host in
\* sorted order, the empty result list.
Run_MakeTasks ==
    /\ main_pc = "run" /\ run_pc = "make_sem"
    /\ semaphore_ok(params.concurrency)
    /\ sem_made' = TRUE
    /\ sem_value' = params.concurrency
    /\ tasks' = sorted(hosts)
    /\ status' = [t \in 1..Cardinality(hosts) |-> "Pending"]
    /\ response' = [t \in 1..Cardinality(hosts) |-> NoResponse]
    /\ probes' = [t \in 1..Cardinality(hosts) |-> <<>>]
    /\ raised' = [t \in 1..Cardinality(hosts) |-> ""]
    /\ host_results' = <<>>
    /\ opened' = [t \in 1..Cardinality(hosts) |-> 0]
    /\ i' = 0
    /\ run_pc' = "loop"
    /\ UNCHANGED <<main_pc, params, run_exc, hosts, launched, client,
                   finish_order, batches, report>>
    /\ UNCHANGED main_vars
    /\ UNCHANGED source_vars

\* A slice without its stop: tasks[start:].
batch_unbounded(start, n) == {t \in 1..n : start < t}

\* A slice that stops one short: tasks[start : start + batch_size - 1].
batch_one_short(start, n) == {t \in 1..n : start < t /\ t < start + batch_size}

\* A slice that stops one short: tasks[start : start + size - 1].
chunk_one_short(start, n, size) == {t \in 1..n : start < t /\ t < start + size}

\* tasks[start : start + size] of a list of n tasks, as the (1-based)
\* indices of the slice: a slice stops at the end of the list.
chunk(start, n, size) == {t \in 1..n : start < t /\ t <= start + size}

\* tasks[start : start + batch_size], as the (1-based) indices of the slice.
batch(start, n) == chunk(start, n, batch_size)

\* run(), lines 83-84: the loop has a next batch; gather() schedules its
\* coroutines and run() waits for them.
Run_LaunchBatch ==
    /\ main_pc = "run" /\ run_pc = "loop"
    /\ i < Len(tasks)
    /\ launched' = launched \cup batch(i, Len(tasks))
    /\ batches' = Append(batches, batch(i, Len(tasks)))
    /\ run_pc' = "join"
    /\ UNCHANGED <<main_pc, params, run_exc, hosts, sem_made, sem_value, tasks,
                   status, response, probes, raised, client, finish_order, i,
                   host_results, opened, report>>
    /\ UNCHANGED main_vars
    /\ UNCHANGED source_vars

\* probe_host's return value, line 65.
host_record(t) == [host |-> tasks[t], probes |-> probes[t]]

\* The records of a batch in the order its units finished.
gathered_as_completed(start, n) ==
    LET InBatch(t) == t \in batch(start, n)
        order == SelectSeq(finish_order, InBatch)
    IN  [k \in 1..Len(order) |-> host_record(order[k])]

\* The units of a batch, the last passed first.
submitted_reversed(start, n) ==
    [k \in 1..Cardinality(batch(start, n)) |->
        CHOOSE t \in batch(start, n) :
            Cardinality({u \in batch(start, n) : u > t}) = k - 1]

\* The units of a batch in the order they were passed to gather().
submitted(start, n) ==
    [k \in 1..Cardinality(batch(start, n)) |->
        CHOOSE t \in batch(start, n) :
            Cardinality({u \in batch(start, n) : u < t}) = k - 1]

\* The result list of gather() for a batch: one record per coroutine, in
\* the order the coroutines were passed.
gathered(start, n) ==
    [k \in 1..Cardinality(batch(start, n)) |-> host_record(submitted(start, n)[k])]

\* run(), line 84: every unit of the batch returned; host_results.extend.
Run_Join ==
    /\ main_pc = "run" /\ run_pc = "join"
    /\ \A t \in batch(i, Len(tasks)) : status[t] = "Done"
    /\ host_results' = host_results \o gathered(i, Len(tasks))
    /\ i' = i + batch_size
    /\ run_pc' = "loop"
    /\ UNCHANGED <<main_pc, params, run_exc, hosts, sem_made, sem_value, tasks,
                   launched, status, response, probes, raised, client,
                   finish_order, report>>
    /\ UNCHANGED main_vars
    /\ UNCHANGED source_vars
    /\ UNCHANGED trace_vars

\* The first unit, in finishing order, that ended with an exception.
first_raised ==
    LET k == CHOOSE k \in DOMAIN finish_order :
                 /\ status[finish_order[k]] = "Raised"
                 /\ \A j \in 1..(k - 1) : status[finish_order[j]] # "Raised"
    IN  finish_order[k]

\* run(), line 84: gather() (return_exceptions is False) hands the first
\* exception of a unit to run(), which does not catch it.
Run_JoinRaise ==
    /\ main_pc = "run" /\ run_pc = "join"
    /\ \E t \in batch(i, Len(tasks)) : status[t] = "Raised"
    /\ run_exc' = raised[first_raised]
    /\ run_pc' = "raised"
    /\ UNCHANGED <<main_pc, params, hosts, report>>
    /\ UNCHANGED main_vars
    /\ UNCHANGED source_vars
    /\ UNCHANGED sched_vars
    /\ UNCHANGED trace_vars

\* The dict run() returns, lines 86-92.  The timestamp is the one value "now".
make_report(domain, hosts_file, hs, results) ==
    [root_domain |-> domain,
     hosts_file |-> hosts_file,
     generated_at |-> "now",
     host_count |-> Cardinality(hs),
     hosts |-> results]

\* run(), lines 83 and 86-92: the loop is over; the report is returned.
Run_Return ==
    /\ main_pc = "run" /\ run_pc = "loop"
    /\ i >= Len(tasks)
    /\ report' = make_report(params.domain, params.hosts_file, hosts, host_results)
    /\ run_pc' = "returned"
    /\ UNCHANGED <<main_pc, params, run_exc, hosts>>
    /\ UNCHANGED main_vars
    /\ UNCHANGED source_vars
    /\ UNCHANGED sched_vars
    /\ UNCHANGED trace_vars

\* -------------------------------------------------------------- probe_host

\* A gate that admits every unit, whatever the semaphore's value.
can_acquire_always(value) == TRUE

\* `async with sem` enters without waiting when the semaphore has a free slot.
can_acquire(value) == value > 0

\* The units inside `async with sem`.
holders == {t \in DOMAIN status : status[t] \in {"Probing", "Closing"}}

\* probe_host, lines 55-62, from the first run of a scheduled unit: with a
\* free slot it takes the slot, opens its client and issues the GET;
\* otherwise it waits on the semaphore.
Task_Start(t) ==
    /\ main_pc = "run"
    /\ t \in launched /\ status[t] = "Pending"
    /\ IF can_acquire(sem_value)
       THEN /\ sem_value' = sem_value - 1
            /\ client' = client \cup {t}
            /\ opened' = [opened EXCEPT ![t] = @ + 1]
            /\ status' = [status EXCEPT ![t] = "Probing"]
       ELSE /\ status' = [status EXCEPT ![t] = "GateWait"]
            /\ UNCHANGED <<sem_value, client, opened>>
    /\ UNCHANGED <<main_pc, params, run_pc, run_exc, hosts, sem_made, tasks,
                   launched, response, probes, raised, finish_order, i,
                   host_results, batches, report>>
    /\ UNCHANGED main_vars
    /\ UNCHANGED source_vars

\* probe_host, lines 55-62, for a unit that waited: a slot became free.
Task_Acquire(t) ==
    /\ main_pc = "run"
    /\ status[t] = "GateWait"
    /\ can_acquire(sem_value)
    /\ sem_value' = sem_value - 1
    /\ client' = client \cup {t}
    /\ opened' = [opened EXCEPT ![t] = @ + 1]
    /\ status' = [status EXCEPT ![t] = "Probing"]
    /\ UNCHANGED <<main_pc, params, run_pc, run_exc, hosts, sem_made, tasks,
                   launched, response, probes, raised, finish_order, i,
                   host_results, batches, report>>
    /\ UNCHANGED main_vars
    /\ UNCHANGED source_vars

\* probe_host, lines 61-64, and probe_url: the GET of https://<host> ends
\* with r; probe_url returns its dict, the one result of the unit's
\* gather(), or lets the exception go.
Task_Respond(t) ==
    /\ main_pc = "run"
    /\ status[t] = "Probing"
    /\ \E r \in Responses(HTTPS \o tasks[t]) :
          LET res == probe_url(HTTPS \o tasks[t], r) IN
          /\ response' = [response EXCEPT ![t] = r]
          /\ IF res.raises
             THEN /\ raised' = [raised EXCEPT ![t] = res.value]
                  /\ UNCHANGED probes
             ELSE /\ probes' = [probes EXCEPT ![t] = <<res.value>>]
                  /\ UNCHANGED raised
    /\ status' = [status EXCEPT ![t] = "Closing"]
    /\ UNCHANGED <<main_pc, params, run_pc, run_exc, hosts, sem_made, sem_value,
                   tasks, launched, client, finish_order, i, host_results,
                   report>>
    /\ UNCHANGED main_vars
    /\ UNCHANGED source_vars
    /\ UNCHANGED trace_vars

\* An ending that swallows the exception: the unit returns its record.
exit_status_swallowed(exc) == "Done"

\* An ending that puts a unit whose probe raised back to be probed again.
exit_status_retry(exc) == IF exc = "" THEN "Done" ELSE "Pending"

\* The state a unit ends in: it returned its record, or an exception escaped.
exit_status(exc) == IF exc = "" THEN "Done" ELSE "Raised"

\* An exit that closes the client only when the block ended normally.
client_aexit_unless_raised(open, t, exc) == IF exc = "" THEN open \ {t} ELSE open

\* The open clients after unit t left `async with httpx.AsyncClient(...)`
\* with exception exc ("" for none): __aexit__ closes the client either way.
client_aexit(open, t, exc) == open \ {t}

\* An exit that gives the slot back only when the block ended normally.
sem_aexit_unless_raised(value, exc) == IF exc = "" THEN value + 1 ELSE value

\* The free slots after a unit left `async with sem` with exception exc
\* ("" for none): __aexit__ releases the slot either way.
sem_aexit(value, exc) == value + 1

\* probe_host, lines 57-65: the `async with` blocks are left, the client
\* first and the semaphore second, and the unit returns or raises.
Task_Exit(t) ==
    /\ main_pc = "run"
    /\ status[t] = "Closing"
    /\ client' = client_aexit(client, t, raised[t])
    /\ sem_value' = sem_aexit(sem_value, raised[t])
    /\ status' = [status EXCEPT ![t] = exit_status(raised[t])]
    /\ finish_order' = Append(finish_order, t)
    /\ UNCHANGED <<main_pc, params, run_pc, run_exc, hosts, sem_made, tasks,
                   launched, response, probes, raised, i, host_results, report>>
    /\ UNCHANGED main_vars
    /\ UNCHANGED source_vars
    /\ UNCHANGED trace_vars

\* ------------------------------------------------------------ main, the end

\* main(), lines 108-111: the report is written and the summary printed.
Main_Write ==
    /\ main_pc = "run" /\ run_pc = "returned"
    /\ out_file' = report
    /\ stdout' = Append(stdout, <<"Wrote", args.out, report.host_count, "hosts">>)
    /\ main_pc' = "done"
    /\ UNCHANGED <<args, stderr, params, run_pc, run_exc, hosts, report>>
    /\ UNCHANGED source_vars
    /\ UNCHANGED sched_vars
    /\ UNCHANGED trace_vars

\* The units asyncio.run() cancels when run() has raised: those scheduled
\* and not finished.
cancelled_by_run ==
    {t \in DOMAIN status :
        t \in launched /\ status[t] \in {"Pending", "GateWait", "Probing", "Closing"}}

\* main(), line 106, when run() raised: asyncio.run() cancels the units still
\* scheduled (each leaves its `async with` blocks) and the exception ends
\* main(); nothing is written.
Main_Crash ==
    /\ main_pc = "run" /\ run_pc = "raised"
    /\ status' = [t \in DOMAIN status |->
                     IF t \in cancelled_by_run THEN "Cancelled" ELSE status[t]]
    /\ sem_value' = sem_value + Cardinality(cancelled_by_run \cap holders)
    /\ client' = client \ cancelled_by_run
    /\ main_pc' = "crashed"
    /\ UNCHANGED <<params, run_pc, run_exc, hosts, sem_made, tasks, launched,
                   response, probes, raised, finish_order, i, host_results,
                   report>>
    /\ UNCHANGED main_vars
    /\ UNCHANGED source_vars
    /\ UNCHANGED trace_vars

\* ------------------------------------------------------------ specification

Next ==
    \/ Main_Usage
    \/ Main_CallRun
    \/ Run_ReadHostsFile
    \/ Run_HostsFileMissing
    \/ Run_Discover
    \/ Run_NoSource
    \/ Run_SemaphoreError
    \/ Run_MakeTasks
    \/ Run_LaunchBatch
    \/ Run_Join
    \/ Run_JoinRaise
    \/ Run_Return
    \/ \E t \in DOMAIN status : Task_Start(t)
    \/ \E t \in DOMAIN status : Task_Acquire(t)
    \/ \E t \in DOMAIN status : Task_Respond(t)
    \/ \E t \in DOMAIN status : Task_Exit(t)
    \/ Main_Write
    \/ Main_Crash

Spec == Init /\ [][Next]_vars

\* ------------------------------------- read_hosts_file, one line at a time

\* The most lines of a hosts file.
MaxLines == 2

\* The lines a hosts file is made of: URLs, bare names, comments, blank
\* lines, padded lines, a scheme inside the line, one scheme after or
\* inside the other, and lines with nothing before the first "/".
FileLines ==
    { HTTPS \o <<"a", "/", "p">>,
      <<"b">>,
      <<"#", " ", "c">>,
      <<>>,
      <<" ", "b", "\t">>,
      HTTP \o <<"b">>,
      <<"a">> \o HTTP \o <<"b">>,
      HTTP,
      HTTP \o HTTPS \o <<"c">>,
      <<"h", "t">> \o HTTPS \o <<"t", "p", ":", "/", "/", "a">>,
      HTTP \o <<" ", "a">>,
      <<"/", "x">> }

\* "\n".join(lines)
RECURSIVE join(_)
join(lines) ==
    IF lines = <<>> THEN <<>>
    ELSE IF Len(lines) = 1 THEN lines[1]
    ELSE lines[1] \o <<"\n">> \o join(Tail(lines))

\* The hosts files: every file of at most MaxLines of these lines, and the
\* four-line file of the first scenario.
LongFileTexts ==
    {join(ls) : ls \in UNION {[1..n -> FileLines] : n \in 0..MaxLines}}
        \cup {Scenario1}

\* run() is at line 72, about to call read_hosts_file on a file that exists.
ReadInit ==
    /\ args = [domain |-> None, hosts_file |-> <<"h">>,
               out |-> "results.json", concurrency |-> 1]
    /\ main_pc = "run"
    /\ stdout = <<>>
    /\ stderr = ""
    /\ out_file = NoReport
    /\ params = [domain |-> None, hosts_file |-> <<"h">>, concurrency |-> 1]
    /\ run_pc = "collect"
    /\ run_exc = ""
    /\ file_text \in LongFileTexts
    /\ line_no = 0
    /\ which = "unasked"
    /\ subfinder_calls = <<>>
    /\ discovered = {}
    /\ hosts = {}
    /\ sem_made = FALSE
    /\ sem_value = 0
    /\ tasks = <<>>
    /\ launched = {}
    /\ status = <<>>
    /\ response = <<>>
    /\ probes = <<>>
    /\ raised = <<>>
    /\ client = {}
    /\ finish_order = <<>>
    /\ i = 0
    /\ host_results = <<>>
    /\ batches = <<>>
    /\ opened = <<>>
    /\ report = NoReport

\* read_hosts_file, lines 17-24: one turn of the loop over the lines.
Read_Line ==
    /\ run_pc = "collect"
    /\ line_no < Len(splitlines(file_text))
    /\ hosts' = hosts \cup host_of_line(splitlines(file_text)[line_no + 1])
    /\ line_no' = line_no + 1
    /\ UNCHANGED <<main_pc, params, run_pc, run_exc, file_text, which,
                   subfinder_calls, discovered, report>>
    /\ UNCHANGED main_vars
    /\ UNCHANGED sched_vars
    /\ UNCHANGED trace_vars

\* read_hosts_file, line 25, and run(), line 72: the set is returned.
Read_Return ==
    /\ run_pc = "collect"
    /\ line_no = Len(splitlines(file_text))
    /\ run_pc' = "make_sem"
    /\ UNCHANGED <<main_pc, params, run_exc, hosts, report>>
    /\ UNCHANGED main_vars
    /\ UNCHANGED source_vars
    /\ UNCHANGED sched_vars
    /\ UNCHANGED trace_vars

ReadNext ==
    \/ Read_Line
    \/ Read_Return

ReadSpec == ReadInit /\ [][ReadNext]_vars

\* --------------------------------------- the batch loop at its real size

\* batch_size as line 82 sets it.
batch_size_200 == 200

\* The most hosts of a working set.
MaxTasks == 450

Letters == <<"a", "b", "c", "d", "h", "p", "s", "t", "x">>

\* The k-th of the three-letter hostnames over Letters, in sorted order.
hostname(k) ==
    <<Letters[((k \div 81) % 9) + 1], Letters[((k \div 9) % 9) + 1],
      Letters[(k % 9) + 1]>>

\* The outcome of a probe of host whose GET was refused.
refused(host) ==
    probe_url(HTTPS \o host,
              [kind |-> "exception", cls |-> "ConnectError", msg |-> "refused"]).value

\* The units of a slice of n tasks in the order of the list.
in_order(slice, n) ==
    LET InSlice(t) == t \in slice IN SelectSeq([t \in 1..n |-> t], InSlice)

\* run() is at line 82: the hosts file was read, the semaphore and the
\* coroutines of the sorted hosts exist, nothing is scheduled yet.
BatchInit ==
    /\ args = [domain |-> None, hosts_file |-> <<"h">>,
               out |-> "results.json", concurrency |-> MaxConcurrency]
    /\ main_pc = "run"
    /\ stdout = <<>>
    /\ stderr = ""
    /\ out_file = NoReport
    /\ params = [domain |-> None, hosts_file |-> <<"h">>,
                 concurrency |-> MaxConcurrency]
    /\ run_pc = "loop"
    /\ run_exc = ""
    /\ file_text = None
    /\ line_no = 0
    /\ which = "unasked"
    /\ subfinder_calls = <<>>
    /\ discovered = {}
    /\ \E n \in 0..MaxTasks :
          /\ hosts = {hostname(k) : k \in 1..n}
          /\ tasks = [k \in 1..n |-> hostname(k)]
          /\ status = [t \in 1..n |-> "Pending"]
          /\ response = [t \in 1..n |-> NoResponse]
          /\ probes = [t \in 1..n |-> <<>>]
          /\ raised = [t \in 1..n |-> ""]
          /\ opened = [t \in 1..n |-> 0]
    /\ sem_made = TRUE
    /\ sem_value = MaxConcurrency
    /\ launched = {}
    /\ client = {}
    /\ finish_order = <<>>
    /\ i = 0
    /\ host_results = <<>>
    /\ batches = <<>>
    /\ report = NoReport

\* run(), lines 83-84: gather() is handed tasks[i:i+200]; its units run to
\* their end one after the other, the GET of each refused.
Batch_Launch ==
    /\ main_pc = "run" /\ run_pc = "loop"
    /\ i < Len(tasks)
    /\ LET slice == chunk(i, Len(tasks), batch_size_200) IN
       /\ launched' = launched \cup slice
       /\ batches' = Append(batches, slice)
       /\ status' = [t \in DOMAIN status |->
                        IF t \in slice THEN "Done" ELSE status[t]]
       /\ response' = [t \in DOMAIN response |->
                          IF t \in slice
                          THEN [kind |-> "exception", cls |-> "ConnectError",
                                msg |-> "refused"]
                          ELSE response[t]]
       /\ probes' = [t \in DOMAIN probes |->
                        IF t \in slice THEN <<refused(tasks[t])>> ELSE probes[t]]
       /\ opened' = [t \in DOMAIN opened |->
                        IF t \in slice THEN opened[t] + 1 ELSE opened[t]]
       /\ finish_order' = finish_order \o in_order(slice, Len(tasks))
    /\ run_pc' = "join"
    /\ UNCHANGED <<main_pc, params, run_exc, hosts, sem_made, sem_value, tasks,
                   raised, client, i, host_results, report>>
    /\ UNCHANGED main_vars
    /\ UNCHANGED source_vars

\* run(), line 84: gather() returns the records of the slice in the order
\* of the slice; host_results.extend.
Batch_Join ==
    /\ main_pc = "run" /\ run_pc = "join"
    /\ LET slice == chunk(i, Len(tasks), batch_size_200)
           units == in_order(slice, Len(tasks))
       IN  /\ \A t \in slice : status[t] = "Done"
           /\ host_results' =
                 host_results \o [k \in DOMAIN units |-> host_record(units[k])]
    /\ i' = i + batch_size_200
    /\ run_pc' = "loop"
    /\ UNCHANGED <<main_pc, params, run_exc, hosts, sem_made, sem_value, tasks,
                   launched, status, response, probes, raised, client,
                   finish_order, report>>
    /\ UNCHANGED main_vars
    /\ UNCHANGED source_vars
    /\ UNCHANGED trace_vars

BatchNext ==
    \/ Batch_Launch
    \/ Batch_Join
    \/ Run_Return

BatchSpec == BatchInit /\ [][BatchNext]_vars

\* ------------------------------------------------------------------ claims

\* C1: in every state of run(), the number of probe_host units inside
\* `async with sem` is at most the configured concurrency.
C1_GateBound == sem_made => Cardinality(holders) <= params.concurrency

\* The bound is reached: every slot is held and a further unit waits.
C1_Witness ==
    /\ params.concurrency >= 1
    /\ Cardinality(holders) = params.concurrency
    /\ \E t \in DOMAIN status : status[t] = "GateWait"

\* C2: when run() has returned, the hosts of the report are in strictly
\* ascending lexical order of hostname, whatever order the units finished in.
C2_SortedReport ==
    run_pc = "returned" =>
        \A k \in 1..(Len(report.hosts) - 1) :
            str_less(report.hosts[k].host, report.hosts[k + 1].host)

\* A report of three hosts, two batches, whose second unit finished before
\* its first.
C2_Witness ==
    /\ run_pc = "returned"
    /\ Len(report.hosts) = 3
    /\ finish_order[1] = 2

\* The failures of a GET that are network errors: a refused connection (or
\* a DNS or TLS failure) and a timeout.
NetworkErrors == {"ConnectError", "ReadTimeout"}

\* The GET of unit t ended with a network error.
NetworkFailed(t) ==
    response[t].kind = "exception" /\ response[t].cls \in NetworkErrors

HasError(outcome) == "error" \in DOMAIN outcome

\* The report holds a record of the host of unit u.
Reported(u) ==
    /\ report # NoReport
    /\ \E k \in DOMAIN report.hosts : report.hosts[k].host = tasks[u]

\* C3 as claimed: whenever the probe of one host fails, no other unit is
\* cancelled, and when main() has ended every other host, of the same batch
\* and of the later ones, was probed to completion and has its record in
\* the report.
C3_Original ==
    \A t, u \in DOMAIN status :
        (t # u /\ response[t].kind = "exception") =>
            /\ status[u] # "Cancelled"
            /\ main_pc \in {"done", "crashed"} => status[u] = "Done" /\ Reported(u)

\* C3 as amended: a probe that fails with a network error (an
\* httpx.RequestError, timeouts included) fails no other probe.  The failing
\* unit raises nothing; run() never raises a network error, and no unit is
\* cancelled unless run() raised; and when run() returns, every host of the
\* working set, in every batch, was probed to completion and has its record,
\* with an error descriptor exactly in the records of the hosts whose probe
\* failed.
C3_FailureIsolated ==
    /\ \A t \in DOMAIN status :
          NetworkFailed(t) => raised[t] = "" /\ status[t] # "Raised"
    /\ run_exc \notin NetworkErrors
    /\ (\E t \in DOMAIN status : status[t] = "Cancelled") => run_pc = "raised"
    /\ run_pc = "returned" =>
          /\ Len(report.hosts) = Len(tasks)
          /\ \A t \in DOMAIN tasks :
                /\ status[t] = "Done"
                /\ report.hosts[t].host = tasks[t]
                /\ Len(report.hosts[t].probes) = 1
                /\ HasError(report.hosts[t].probes[1]) <=> NetworkFailed(t)

\* A returned run of three hosts whose first probe was refused while its
\* batch sibling and the host of the next batch got their responses.
C3_Witness ==
    /\ run_pc = "returned"
    /\ Len(tasks) = 3
    /\ response[1].kind = "exception"
    /\ response[2].kind = "response"
    /\ response[3].kind = "response"

\* C4 as claimed: whatever exception ends the GET of a unit, the unit raises
\* nothing and returns a record whose outcome carries an error descriptor.
C4_Original ==
    \A t \in DOMAIN status :
        response[t].kind = "exception" =>
            /\ raised[t] = ""
            /\ status[t] # "Raised"
            /\ status[t] \in {"Closing", "Done"} =>
                  Len(probes[t]) = 1 /\ HasError(probes[t][1])

\* C4 as amended: a GET that ends with a network error (an httpx.RequestError:
\* refused connection, DNS or TLS failure, timeout) is never propagated: the
\* unit raises nothing and its one outcome is {url, error}, the error naming
\* the exception class and its message.  An exception of another class
\* escapes probe_url and probe_host.
C4_Amended ==
    \A t \in DOMAIN status :
        /\ NetworkFailed(t) =>
              /\ raised[t] = ""
              /\ status[t] # "Raised"
              /\ probes[t] = << [url |-> HTTPS \o tasks[t],
                                 error |-> response[t].cls \o ": " \o response[t].msg] >>
        /\ (response[t].kind = "exception" /\ ~NetworkFailed(t)) =>
              /\ raised[t] = response[t].cls
              /\ probes[t] = <<>>
              /\ status[t] # "Done"

\* A unit whose GET timed out has returned its record.
C4_Witness ==
    \E t \in DOMAIN status :
        /\ status[t] = "Done"
        /\ response[t].kind = "exception"
        /\ response[t].cls = "ReadTimeout"

\* C5 as claimed, in the form a finite run refutes: while asyncio.run(run())
\* is in progress a step is always possible, so no unit is left waiting on
\* the semaphore with nothing able to release it.
C5_Original == main_pc = "run" => ENABLED Next

\* C6: every outcome probe_url returned has `url` and exactly one of the two
\* shapes: status_code with final_url, server and content_type and no error,
\* or error and no status_code.
C6_TaggedOutcome ==
    \A t \in DOMAIN probes : \A k \in DOMAIN probes[t] :
        LET keys == DOMAIN probes[t][k] IN
        /\ "url" \in keys
        /\ \/ /\ {"status_code", "final_url", "server", "content_type"} \subseteq keys
              /\ "error" \notin keys
           \/ /\ "error" \in keys
              /\ "status_code" \notin keys

\* Both shapes were returned in one run.
C6_Witness ==
    \E t, u \in DOMAIN probes :
        /\ Len(probes[t]) = 1 /\ "status_code" \in DOMAIN probes[t][1]
        /\ Len(probes[u]) = 1 /\ "error" \in DOMAIN probes[u][1]

\* C7: the report's host_count is the number of distinct hostnames of the
\* working set and the length of the report's hosts sequence, whose records
\* name exactly the hosts of the working set, each once.
C7_HostCount ==
    run_pc = "returned" =>
        /\ report.host_count = Cardinality(hosts)
        /\ report.host_count = Len(report.hosts)
        /\ {report.hosts[k].host : k \in DOMAIN report.hosts} = hosts
        /\ \A j, k \in DOMAIN report.hosts :
              report.hosts[j].host = report.hosts[k].host => j = k

\* The report of a hosts file that lists one host on four lines.
C7_Witness ==
    /\ run_pc = "returned"
    /\ file_text = Duplicates
    /\ report.host_count = 1

\* subfinder was run: the completed process of the call.
Invoked == Len(subfinder_calls) > 0

ToolProcess == subfinder_calls[1][2]

DomainMode ==
    /\ Truthy(args.domain) /\ ~Truthy(args.hosts_file)
    /\ run_pc \notin {"idle", "collect"}

\* C9 as claimed: in domain mode the working set is the discovered hostnames
\* with the root domain, so it holds the root domain; with the tool absent
\* the tool is not run and the working set is the root domain alone.
C9_Original ==
    DomainMode =>
        /\ hosts = discovered \cup {strip(args.domain)}
        /\ strip(args.domain) \in hosts
        /\ which = "absent" => subfinder_calls = <<>> /\ hosts = {strip(args.domain)}

\* C9 as amended: the same, for a --domain value that is not blank.  A blank
\* value is stripped to the empty string, for which run() takes no branch:
\* the tool is not looked for and the working set is empty.
C9_Amended ==
    /\ (DomainMode /\ strip(args.domain) # <<>>) =>
          /\ hosts = discovered \cup {strip(args.domain)}
          /\ strip(args.domain) \in hosts
          /\ which # "unasked"
          /\ which = "absent" => subfinder_calls = <<>> /\ hosts = {strip(args.domain)}
    /\ (DomainMode /\ strip(args.domain) = <<>>) =>
          hosts = {} /\ which = "unasked" /\ subfinder_calls = <<>>

\* Domain mode with the tool absent: the working set is the root domain.
C9_Witness ==
    /\ DomainMode
    /\ which = "absent"
    /\ hosts = {<<"d">>}

\* C10: when both --domain and --hosts-file are supplied (both non-empty:
\* what line 103 counts as provided), subfinder is neither looked for nor
\* run, and once the file was read the working set is the normalized
\* hostname set of the file: the root domain was not added to it.
C10_HostsFilePrecedence ==
    (Truthy(args.hosts_file) /\ Truthy(args.domain)) =>
        /\ which = "unasked" /\ subfinder_calls = <<>> /\ discovered = {}
        /\ (run_pc \notin {"idle", "collect"} /\ run_exc # "FileNotFoundError") =>
              /\ file_text # None
              /\ hosts = read_hosts_file(file_text)
              /\ params.domain \in hosts =>
                    params.domain \in read_hosts_file(file_text)

\* Both are supplied, the file lists a and b, and the working set is {a, b}:
\* the domain d is not in it.
C10_Witness ==
    /\ args.domain = <<"d">> /\ Truthy(args.hosts_file)
    /\ run_pc = "make_sem"
    /\ file_text = Scenario1
    /\ hosts = {<<"a">>, <<"b">>}

\* ------------------------------------------------------------------ C11

\* An option main() counts as supplied: present and not the empty string.
Supplied(s) == s \notin {None, <<>>}

NothingSupplied == ~Supplied(args.hosts_file) /\ ~Supplied(args.domain)

\* No work was started: no discovery, no gate, no probe, no output.
NoWorkDone ==
    /\ run_pc = "idle" /\ report = NoReport
    /\ file_text = None /\ which = "unasked" /\ subfinder_calls = <<>>
    /\ ~sem_made /\ status = <<>> /\ batches = <<>> /\ client = {}
    /\ out_file = NoReport /\ stdout = <<>>

\* main() is over, one way or the other.
MainEnded == main_pc \in {"exited", "done", "crashed"}

\* The run ended by writing the report and printing the summary line with
\* the report's host_count.
EndedByWriting ==
    /\ main_pc = "done"
    /\ report # NoReport /\ out_file = report
    /\ stdout = << <<"Wrote", args.out, report.host_count, "hosts">> >>
    /\ stderr = ""

\* The usage exit: the message, a non-zero status, and no work.
UsageExit ==
    /\ NothingSupplied =>
          /\ main_pc \in {"check_args", "exited"}
          /\ NoWorkDone
          /\ main_pc = "exited" <=> stderr = "Provide --hosts-file or --domain"
    /\ ~NothingSupplied => main_pc # "exited" /\ stderr = ""

\* C11 as stated: with neither --domain nor --hosts-file main() exits with
\* the message before any work; in every other case the run ends by writing
\* the output document and printing the summary.
C11_Original ==
    /\ UsageExit
    /\ (~NothingSupplied /\ MainEnded) => EndedByWriting

\* C11, amended: with neither --domain nor --hosts-file main() exits with
\* the message before any work; in every other case main() calls run(), and
\* it ends by writing the output document and printing the summary with the
\* report's host_count exactly when run() returned its report; when run()
\* raised, main() ends with that exception, nothing written or printed.
C11_Amended ==
    /\ UsageExit
    /\ (~NothingSupplied /\ MainEnded) =>
          /\ main_pc = "done" <=> run_pc = "returned"
          /\ main_pc = "crashed" <=> run_pc = "raised"
          /\ main_pc = "done" => EndedByWriting /\ run_exc = ""
          /\ main_pc = "crashed" =>
                /\ run_exc \in {"FileNotFoundError", "ValueError", "InvalidURL"}
                /\ report = NoReport /\ out_file = NoReport /\ stdout = <<>>
    /\ (out_file # NoReport \/ stdout # <<>>) => EndedByWriting

\* The usage exit was taken with an empty --domain and no hosts file.
C11_Witness ==
    /\ args.domain = <<>> /\ args.hosts_file = None
    /\ main_pc = "exited"
    /\ stderr = "Provide --hosts-file or --domain"

\* ------------------------------------------------------------------ C12

\* s without its leading and trailing whitespace, by position.
Trimmed(s) ==
    LET inked == {p \in 1..Len(s) : s[p] \notin Whitespace} IN
    IF inked = {} THEN <<>>
    ELSE SubSeq(s, CHOOSE p \in inked : \A q \in inked : p <= q,
                   CHOOSE p \in inked : \A q \in inked : q <= p)

\* The characters of s at the positions in keep, in their order.
Kept(s, keep) ==
    [k \in 1..Cardinality(keep) |->
        s[CHOOSE p \in keep : Cardinality({q \in keep : q < p}) = k - 1]]

\* s without the occurrences of old, by position: an occurrence counts when
\* no counted occurrence to its left overlaps it.
Deleted(s, old) ==
    LET occurs(p) == p + Len(old) - 1 <= Len(s)
                        /\ SubSeq(s, p, p + Len(old) - 1) = old
        counted[p \in 1..Len(s)] ==
            /\ occurs(p)
            /\ \A q \in 1..(p - 1) : q + Len(old) > p => ~counted[q]
        covered(p) == \E q \in 1..p : q + Len(old) > p /\ counted[q]
    IN  Kept(s, {p \in 1..Len(s) : ~covered(p)})

\* s up to its first "/", by position.
BeforeSlash(s) ==
    LET slashes == {p \in 1..Len(s) : s[p] = "/"} IN
    IF slashes = {} THEN s
    ELSE SubSeq(s, 1, (CHOOSE p \in slashes : \A q \in slashes : p <= q) - 1)

\* A line that is neither empty nor a comment once trimmed.
HostLine(raw) == Trimmed(raw) # <<>> /\ Trimmed(raw)[1] # "#"

\* The hostname of a line when a scheme is stripped only as the prefix of
\* the trimmed line.
PrefixStripped(raw) ==
    LET line == Trimmed(raw) IN
    IF Len(line) >= Len(HTTP) /\ SubSeq(line, 1, Len(HTTP)) = HTTP
    THEN BeforeSlash(SubSeq(line, Len(HTTP) + 1, Len(line)))
    ELSE IF Len(line) >= Len(HTTPS) /\ SubSeq(line, 1, Len(HTTPS)) = HTTPS
         THEN BeforeSlash(SubSeq(line, Len(HTTPS) + 1, Len(line)))
         ELSE BeforeSlash(line)

\* The hostname of a line when every "http://", and then every "https://",
\* is removed from the trimmed line wherever it stands.
EveryStripped(raw) == BeforeSlash(Deleted(Deleted(Trimmed(raw), HTTP), HTTPS))

\* The lines read_hosts_file has gone through.
LinesRead == SubSeq(splitlines(file_text), 1, line_no)

\* The example of the claim: https://a/p, b, "# c" and an empty line give
\* the set {a, b}.
C12_Example ==
    (file_text = Scenario1 /\ run_pc = "make_sem") =>
        hosts = {<<"a">>, <<"b">>}

\* C12 as stated: read_hosts_file yields one hostname per non-empty,
\* non-comment line, each trimmed of surrounding whitespace; a scheme is
\* stripped only as a prefix of the line and the rest is cut at the first
\* "/"; no hostname of the result is empty or contains "/".
C12_Original ==
    file_text # None =>
    /\ hosts = {PrefixStripped(l) : l \in {r \in Range(LinesRead) : HostLine(r)}}
                  \ {<<>>}
    /\ \A h \in hosts : h # <<>> /\ "/" \notin Range(h) /\ Trimmed(h) = h
    /\ C12_Example

\* C12, amended: the result of read_hosts_file holds, for every line that is
\* neither empty nor a comment once trimmed, the trimmed line without any
\* "http://" and then without any "https://", wherever in the line they
\* stand, cut at the first "/", unless nothing is left of it; it holds
\* nothing else, and no hostname of it is empty or contains "/".
C12_Amended ==
    file_text # None =>
    /\ hosts = {EveryStripped(l) : l \in {r \in Range(LinesRead) : HostLine(r)}}
                  \ {<<>>}
    /\ \A h \in hosts : h # <<>> /\ "/" \notin Range(h)
    /\ C12_Example

\* The file ahttp://b, https://a/p was read: the hosts are ab and a.
C12_Witness ==
    /\ run_pc = "make_sem"
    /\ file_text = <<"a">> \o HTTP \o <<"b", "\n">> \o HTTPS \o <<"a", "/", "p">>
    /\ line_no = 2
    /\ hosts = {<<"a", "b">>, <<"a">>}

\* ------------------------------------------------------------------ C13

\* The sizes of the batches handed to gather(), in order.
BatchSizes == [k \in DOMAIN batches |-> Cardinality(batches[k])]

\* ceil(n / b)
CeilDiv(n, b) == (n + b - 1) \div b

\* C13: with batch size 200, N hosts are processed in exactly ceil(N/200)
\* batches, every batch but the last holding exactly 200 tasks and the last
\* between 1 and 200 (450 hosts: 200, 200, 50), and the concatenation of the
\* batches' results is the full sorted host sequence.
C13_Batches ==
    /\ \A k \in DOMAIN batches :
          /\ k < Len(batches) => BatchSizes[k] = 200
          /\ 1 <= BatchSizes[k] /\ BatchSizes[k] <= 200
    /\ Len(batches) <= CeilDiv(Len(tasks), 200)
    /\ run_pc = "returned" =>
          /\ Len(batches) = CeilDiv(Len(tasks), 200)
          /\ [k \in DOMAIN host_results |-> host_results[k].host] = tasks
          /\ \A k \in 1..(Len(tasks) - 1) : str_less(tasks[k], tasks[k + 1])
          /\ Len(tasks) = 450 => BatchSizes = <<200, 200, 50>>

\* 450 hosts went through in batches of 200, 200 and 50.
C13_Witness ==
    /\ run_pc = "returned"
    /\ Len(tasks) = 450
    /\ BatchSizes = <<200, 200, 50>>
    /\ Len(host_results) = 450

\* ------------------------------------------------------------------ C14

\* The batch a unit belongs to, counted from 1: units 1..batch_size are the
\* first batch of the sorted list, and so on.
BatchNo(t) == ((t - 1) \div batch_size) + 1

\* The units that are waiting on the gate or probing.
InFlight == {t \in DOMAIN status : status[t] \in {"GateWait", "Probing", "Closing"}}

\* The units handed to gather() that have not ended.
Outstanding ==
    {t \in launched : status[t] \in {"Pending", "GateWait", "Probing", "Closing"}}

\* C14: no unit of a later batch is launched, or has left Pending, before
\* every unit of the batches before it is Done; so the units in GateWait or
\* Probing belong to one batch, and at most batch_size units (200 in the
\* program) are outstanding at once.
C14_BatchBarrier ==
    /\ \A t \in DOMAIN status : \A u \in DOMAIN status :
          (BatchNo(t) < BatchNo(u) /\ (u \in launched \/ status[u] # "Pending"))
              => status[t] = "Done"
    /\ \A t \in InFlight : \A u \in InFlight : BatchNo(t) = BatchNo(u)
    /\ Cardinality(Outstanding) <= batch_size
    /\ Cardinality(InFlight) <= batch_size

\* The second batch is in flight, the first is Done.
C14_Witness ==
    /\ Len(tasks) > batch_size
    /\ \E u \in InFlight : BatchNo(u) = 2
    /\ \A t \in DOMAIN status : BatchNo(t) = 1 => status[t] = "Done"
    /\ Cardinality(Outstanding) = batch_size

\* ------------------------------------------------------------------ C15

\* The units that have left `async with sem` after entering it: they ended,
\* or were cancelled, having opened their client inside the block.
Released == {t \in DOMAIN status :
                status[t] \in {"Done", "Raised", "Cancelled"} /\ opened[t] > 0}

\* C15: a unit that acquired a slot gives it back on every way out (its
\* probe answered, a transport error recorded, an exception escaping, or
\* cancelled), once per acquisition: the free slots and the units inside
\* the block always add up to concurrency, a unit that has ended holds
\* none, and whenever no unit is probing all slots are free.
C15_SlotReleased ==
    sem_made =>
        /\ sem_value + Cardinality(holders) = params.concurrency
        /\ holders \cap Released = {}
        /\ \A t \in DOMAIN status :
              status[t] \in {"Done", "Raised", "Cancelled"} => t \notin holders
        /\ holders = {} => sem_value = params.concurrency

\* All three ways out were taken and every slot is free again: one unit
\* returned a response's outcome, one a transport error's, and one let an
\* exception escape.
C15_Witness ==
    /\ sem_made /\ params.concurrency > 0
    /\ holders = {} /\ sem_value = params.concurrency
    /\ \E t \in DOMAIN status :
          status[t] = "Done" /\ response[t].kind = "response"
    /\ \E t \in DOMAIN status :
          status[t] = "Done" /\ response[t].kind = "exception"
    /\ \E t \in DOMAIN status : status[t] = "Raised"

\* ------------------------------------------------------------------ C16

\* The records of units 1..n of the sorted list, in that order.
RecordsUpTo(n) == [t \in 1..n |-> [host |-> tasks[t], probes |-> probes[t]]]

\* a is an initial part of b.
IsPrefix(a, b) == Len(a) <= Len(b) /\ SubSeq(b, 1, Len(a)) = a

\* host_results is the records of the first k batches, all of them complete.
WholeBatches ==
    \E k \in 0..Len(batches) :
        /\ Len(host_results) =
              IF k * batch_size < Len(tasks) THEN k * batch_size ELSE Len(tasks)
        /\ host_results = RecordsUpTo(Len(host_results))
        /\ \A t \in 1..Len(host_results) : status[t] = "Done"
        /\ (Len(host_results) % batch_size = 0) \/ Len(host_results) = Len(tasks)

\* host_results changes only in a step of run() at the join, which adds the
\* records of the batch run() was waiting for behind those it holds.
OnlyAppended ==
    host_results' # host_results =>
        /\ run_pc = "join" /\ run_pc' = "loop"
        /\ IsPrefix(host_results, host_results')
        /\ Len(host_results') - Len(host_results) = Cardinality(batches[Len(batches)])
        /\ \A t \in batches[Len(batches)] : status[t] = "Done"

\* C16: host_results is appended to only by the scheduler and only after a
\* whole batch completed: in every state it is exactly the records of the
\* first k complete batches of the sorted list, its length a multiple of
\* the batch size until the final batch is appended, and no record is ever
\* removed or reordered.
C16_WholeBatchesOnly == [](sem_made => WholeBatches) /\ [][OnlyAppended]_vars

\* The first batch is in host_results while the second is still probing.
C16_Witness ==
    /\ Len(host_results) = batch_size
    /\ Len(tasks) > batch_size
    /\ \E t \in holders : BatchNo(t) = 2

\* ------------------------------------------------------------------ C17

\* The units that have constructed a client.
Opened == {t \in DOMAIN opened : opened[t] > 0}

\* A step that opens a client is the step in which its unit takes a slot; a
\* step in which a unit gives up its slot has closed the unit's client.
ClientInsideGate ==
    /\ \A t \in client' \ client :
          /\ t \in holders' \ holders
          /\ sem_value' = sem_value - 1
    /\ \A t \in holders \ holders' : t \in client \ client'
    /\ \A t \in DOMAIN opened :
          opened'[t] # opened[t] => (opened'[t] = opened[t] + 1 /\ t \in client' \ client)

\* C17: a unit opens exactly one client, after it acquired its slot, and
\* closes it before it gives the slot back and returns, whether it ends well
\* or not: a client is open only while its unit holds the gate, the open
\* clients are at most concurrency, and no client serves two hosts (the
\* client of unit t is opened by t alone, once).
C17_ClientPerUnit ==
    /\ [](sem_made =>
            /\ client = holders
            /\ Cardinality(client) <= params.concurrency
            /\ \A t \in DOMAIN status :
                  /\ opened[t] <= 1
                  /\ status[t] \in {"Pending", "GateWait"} => opened[t] = 0
                  /\ status[t] \in {"Probing", "Closing", "Done", "Raised"}
                        => opened[t] = 1
                  /\ status[t] \in {"Done", "Raised", "Cancelled"} => t \notin client)
    /\ [][sem_made => ClientInsideGate]_vars

\* One unit has closed its client after a failure that escaped, another
\* after a recorded outcome, a third has its client open and holds a slot.
C17_Witness ==
    /\ \E t \in DOMAIN status :
          status[t] = "Raised" /\ opened[t] = 1 /\ t \notin client
    /\ \E t \in DOMAIN status :
          status[t] = "Done" /\ opened[t] = 1 /\ t \notin client
    /\ \E t \in client : status[t] = "Probing"

\* ------------------------------------------------------------------ C18

\* The place of a unit's state in the order Pending, GateWait, Probing
\* (the GET, then leaving the blocks), ended.
Rank(s) ==
    CASE s = "Pending" -> 0
      [] s = "GateWait" -> 1
      [] s = "Probing" -> 2
      [] s = "Closing" -> 3
      [] s \in {"Done", "Raised", "Cancelled"} -> 4

\* A unit only moves forward in the order, issues its GET once and keeps
\* what the GET ended with.
ForwardOnly ==
    \A t \in DOMAIN status :
        /\ status'[t] # status[t] => Rank(status'[t]) > Rank(status[t])
        /\ opened'[t] >= opened[t]
        /\ response[t] # NoResponse => response'[t] = response[t]
        /\ probes[t] # <<>> => probes'[t] = probes[t]

\* The report holds one record per hostname of the working set and no
\* other, each with one outcome, whose url is https:// and the hostname.
OneRecordPerHost ==
    /\ Len(report.hosts) = Cardinality(hosts)
    /\ {report.hosts[k].host : k \in DOMAIN report.hosts} = hosts
    /\ \A k \in DOMAIN report.hosts :
          /\ Len(report.hosts[k].probes) = 1
          /\ report.hosts[k].probes[1].url = HTTPS \o report.hosts[k].host

\* C18: each hostname of the working set is probed exactly once per run: its
\* unit goes through Pending, GateWait, Probing, Done in that order, never
\* back and never again, and the completed report holds exactly one record
\* per hostname of the working set and none for another name, each with one
\* outcome whose url is https:// followed by the hostname.
C18_ProbedOnce ==
    /\ [](sem_made =>
            /\ \A t \in DOMAIN status :
                  /\ tasks[t] \in hosts
                  /\ opened[t] <= 1 /\ Len(probes[t]) <= 1
                  /\ status[t] = "Done" =>
                        /\ opened[t] = 1 /\ response[t] # NoResponse
                        /\ Len(probes[t]) = 1
            /\ \A t \in DOMAIN status : \A u \in DOMAIN status :
                  tasks[t] = tasks[u] => t = u)
    /\ [](report # NoReport =>
            /\ OneRecordPerHost
            /\ \A t \in DOMAIN status : status[t] = "Done" /\ opened[t] = 1)
    /\ [][sem_made /\ run_pc # "make_sem" => ForwardOnly]_vars

\* A report of three hosts: one unit waited for the gate, one did not.
C18_Witness ==
    /\ run_pc = "returned"
    /\ Len(report.hosts) = 3
    /\ OneRecordPerHost
    /\ \A t \in DOMAIN status : status[t] = "Done" /\ opened[t] = 1
    /\ params.concurrency = 1

\* ------------------------------------------------------------------ C19

\* The units a not-caught exception has escaped from.
RaisedUnits == {t \in DOMAIN status : status[t] = "Raised"}

\* The batch run() is waiting for, or was when it raised.
CurrentBatch == batches[Len(batches)]

\* C19: when an exception probe_url does not catch escapes a unit, run()
\* raises it at the join of the unit's batch: no report is returned and no
\* output written, the records of that batch are never appended, no later
\* batch is launched, and the failing unit's slot is released all the same.
C19_UncaughtAborts ==
    /\ \A t \in DOMAIN status :
          (raised[t] # "" /\ status[t] # "Closing") =>
              /\ status[t] \in {"Raised", "Cancelled"}
              /\ probes[t] = <<>>
              /\ \A k \in DOMAIN host_results : host_results[k].host # tasks[t]
    /\ RaisedUnits # {} =>
          /\ main_pc \in {"run", "crashed"}
          /\ run_pc \in {"join", "raised"}
          /\ (main_pc = "run" /\ run_pc = "join") => ENABLED Run_JoinRaise
          /\ main_pc = "crashed" => run_pc = "raised"
          /\ run_pc = "raised" =>
                run_exc \in {raised[t] : t \in RaisedUnits}
          /\ report = NoReport /\ out_file = NoReport /\ stdout = <<>>
          /\ RaisedUnits \subseteq CurrentBatch
          /\ \A k \in DOMAIN host_results :
                \A u \in CurrentBatch : host_results[k].host # tasks[u]
          /\ Len(host_results) = (Len(batches) - 1) * batch_size
          /\ launched = UNION {batches[k] : k \in DOMAIN batches}
          /\ \A u \in DOMAIN status :
                (\A t \in CurrentBatch : t < u) =>
                    (u \notin launched /\ status[u] = "Pending")
          /\ RaisedUnits \cap holders = {}
          /\ RaisedUnits \cap client = {}
          /\ sem_value + Cardinality(holders) = params.concurrency

\* run() raised InvalidURL out of the second batch: the first batch is in
\* host_results, the second is not, nothing was written, the slots are free.
C19_Witness ==
    /\ main_pc = "crashed" /\ run_exc = "InvalidURL"
    /\ Len(batches) = 2 /\ Len(host_results) = batch_size
    /\ \E t \in CurrentBatch : status[t] = "Raised"
    /\ \E t \in CurrentBatch : status[t] = "Cancelled"
    /\ out_file = NoReport
    /\ sem_value = params.concurrency

\* ------------------------------------------------------------------ C20

\* run() has its working set, and it is empty.
EmptyWorkingSet ==
    /\ run_pc \in {"make_sem", "loop", "join", "returned", "raised"}
    /\ run_exc # "FileNotFoundError"
    /\ hosts = {}

\* Nothing was launched and the gate was never taken.
NothingProbed ==
    /\ batches = <<>> /\ launched = {} /\ status = <<>> /\ client = {}
    /\ sem_made => sem_value = params.concurrency
    /\ host_results = <<>>

\* run() goes on to return the empty report, which main() writes.
EmptyReportWritten ==
    /\ run_pc \in {"make_sem", "loop", "returned"} /\ run_exc = ""
    /\ main_pc \in {"run", "done"}
    /\ main_pc = "run" => ENABLED Next
    /\ run_pc = "returned" =>
          /\ report # NoReport
          /\ report.host_count = 0 /\ report.hosts = <<>>
    /\ main_pc = "done" =>
          /\ run_pc = "returned" /\ out_file = report
          /\ stdout = << <<"Wrote", args.out, 0, "hosts">> >>

\* C20 as stated: with an empty working set (a hosts file of blank and
\* comment lines only, or a whitespace-only --domain) run() launches no
\* batch, never acquires the gate, and returns a report with host_count 0
\* and no hosts, which main() writes as a successful run.
C20_Original == EmptyWorkingSet => (NothingProbed /\ EmptyReportWritten)

\* C20, amended: with an empty working set run() launches no batch and never
\* acquires the gate; when --concurrency is not negative (0 included) it
\* returns a report with host_count 0 and no hosts, which main() writes as a
\* successful run; when --concurrency is negative, making the semaphore
\* raises ValueError, no report is returned and nothing is written.
C20_Amended ==
    EmptyWorkingSet =>
        /\ NothingProbed
        /\ params.concurrency >= 0 => EmptyReportWritten
        /\ params.concurrency < 0 =>
              /\ run_pc \in {"make_sem", "raised"}
              /\ run_pc = "raised" => run_exc = "ValueError"
              /\ main_pc = "run" => ENABLED Next
              /\ main_pc \in {"run", "crashed"}
              /\ report = NoReport /\ out_file = NoReport /\ stdout = <<>>

\* --domain " " with --concurrency 0: the empty report was written.
C20_Witness ==
    /\ args.domain = <<" ">> /\ args.hosts_file = None
    /\ args.concurrency = 0
    /\ EmptyWorkingSet
    /\ main_pc = "done"
    /\ out_file # NoReport
    /\ out_file.host_count = 0 /\ out_file.hosts = <<>>

=============================================================================
